---- MODULE Spec2Model ----
(***************************************************************************)
(* Model of the bulb_manager module (src/lib.rs): the registry of          *)
(* BulbInfo records behind Arc<Mutex<HashMap<u64, BulbInfo>>>, the         *)
(* receiver thread Manager::worker that folds datagrams into the records   *)
(* through Manager::handle_message, and the foreground calls discover,     *)
(* add_bulb, refresh, the BulbInfo commands and the getters.               *)
(*                                                                         *)
(* Option<T> is a sequence: None is <<>>, Some(v) is <<v>>.  A Vec is a    *)
(* sequence; Rust index i is position i + 1.  Instants are seconds on a    *)
(* discrete clock.                                                         *)
(***************************************************************************)
EXTENDS Integers, Sequences, FiniteSets, TLC

(***************************************************************************)
(* Bounds of the model.                                                    *)
(***************************************************************************)
\* device identities are 1..MaxTarget (0 is the "not self-identifying" one)
MaxTarget == 2
\* number of times the clock advances
MaxTicks == 1
\* broadcast interfaces discover() finds
MaxIface == 1

(***************************************************************************)
(* Program constants.                                                      *)
(***************************************************************************)
\* const HOUR: Duration = Duration::from_secs(60 * 60)
HOUR == 3600
\* Duration::from_secs(15), the window of power, zones and colour
FIFTEEN_SECS == 15
\* the port of UdpSocket::bind and of the broadcast address
LIFX_PORT == 56700
\* let source: u32 = 0x72757374
SOURCE == 1920300916
\* the modulus of (seq % 255) + 1
SEQ_MOD == 255
\* u8::MAX, the largest count, index and seq a message carries
U8_MAX == 255
\* end_index of the GetColorZones refresh message
END_INDEX == 255

None == <<>>
Some(v) == <<v>>
IsSome(o) == o # <<>>
Unwrap(o) == o[1]

Targets == 1..MaxTarget
\* the senders of datagrams: two devices' sockets, the second on another port
Addrs == {[ip |-> 1, port |-> LIFX_PORT], [ip |-> 2, port |-> LIFX_PORT + 1]}

(***************************************************************************)
(* RefreshableData<T>                                                      *)
(***************************************************************************)
Msg0(type) == [type |-> type]

RefreshableData_empty(max_age, refresh_msg, t) ==
    [data |-> None, max_age |-> max_age, last_updated |-> t,
     refresh_msg |-> refresh_msg]

RefreshableData_update(d, data, t) ==
    [d EXCEPT !.data = Some(data), !.last_updated = t]

\* a variant of needs_refresh: stale already when max_age has just elapsed
needs_refresh_at_max_age(d, t) ==
    d.data = None \/ t - d.last_updated >= d.max_age

needs_refresh(d, t) ==
    d.data = None \/ t - d.last_updated > d.max_age

as_ref(d) == d.data

(***************************************************************************)
(* get_product_info(vendor, product) of lifx_core: the capability lookup.  *)
(* A table over representative products: an original bulb, a multizone     *)
(* strip, a multizone strip with extended zones; anything else is unknown. *)
(***************************************************************************)
get_product_info(vendor, product) ==
    IF vendor # 1 THEN None
    ELSE IF product = 1 THEN Some([multizone |-> FALSE, extended |-> FALSE])
    ELSE IF product = 55 THEN Some([multizone |-> TRUE, extended |-> FALSE])
    ELSE IF product = 38 THEN Some([multizone |-> TRUE, extended |-> TRUE])
    ELSE None

(***************************************************************************)
(* Color and BulbInfo                                                      *)
(***************************************************************************)
ColorUnknown == [tag |-> "Unknown"]
ColorSingle(d) == [tag |-> "Single", d |-> d]
ColorMulti(d) == [tag |-> "Multi", d |-> d]

\* BulbInfo::new: options.sequence starts at 0
NewSequence == 0

BulbInfo_new(source, target, addr, t) ==
    [last_seen |-> t,
     addr |-> addr,
     options |-> [target |-> Some(target), ack_required |-> TRUE,
                  res_required |-> TRUE, source |-> source,
                  sequence |-> NewSequence],
     name |-> RefreshableData_empty(HOUR, Msg0("GetLabel"), t),
     model |-> RefreshableData_empty(HOUR, Msg0("GetVersion"), t),
     location |-> RefreshableData_empty(HOUR, Msg0("GetLocation"), t),
     host_firmware |-> RefreshableData_empty(HOUR, Msg0("GetHostFirmware"), t),
     wifi_firmware |-> RefreshableData_empty(HOUR, Msg0("GetWifiFirmware"), t),
     power_level |-> RefreshableData_empty(FIFTEEN_SECS, Msg0("GetPower"), t),
     zones |-> RefreshableData_empty(FIFTEEN_SECS,
                                     Msg0("GetExtendedColorZones"), t),
     color |-> ColorUnknown]

\* BulbInfo::update
BulbInfo_update(bulb, addr, t) ==
    [bulb EXCEPT !.last_seen = t, !.addr = addr]

\* BulbInfo::get_colors and BulbInfo::get_length: zones.as_ref().unwrap()
get_colors(bulb) ==
    IF IsSome(as_ref(bulb.zones))
    THEN [outcome |-> "ok", value |-> Some(Unwrap(as_ref(bulb.zones)).colors)]
    ELSE [outcome |-> "panic", value |-> None]

get_length(bulb) ==
    IF IsSome(as_ref(bulb.zones))
    THEN [outcome |-> "ok",
          value |-> Some(Unwrap(as_ref(bulb.zones)).zones_count)]
    ELSE [outcome |-> "panic", value |-> None]

(***************************************************************************)
(* Manager::handle_message.  The result is the set of outcomes the build   *)
(* can produce, each [bulb, outcome]: bulb is the record as the call left  *)
(* it (it is mutated in place, so a panic keeps the writes made before     *)
(* it), outcome is "ok", "err" (Message::from_raw failed) or "panic".      *)
(***************************************************************************)
Done(bulb) == {[bulb |-> bulb, outcome |-> "ok"]}
Panic(bulb) == {[bulb |-> bulb, outcome |-> "panic"]}

\* Vec::resize(count, None) on an empty Vec
NoneVec(count) == [i \in 1..count |-> None]

\* bulb.color, when it is Color::Multi, with the field's data replaced
WithMultiData(bulb, data) ==
    [bulb EXCEPT !.color = ColorMulti([bulb.color.d EXCEPT !.data = data])]

\* Message::StateVersion
HandleStateVersion(msg, bulb, t) ==
    LET b1 == [bulb EXCEPT !.model = RefreshableData_update(
                               bulb.model, <<msg.vendor, msg.product>>, t)]
        info == get_product_info(msg.vendor, msg.product)
    IN  IF IsSome(info)
        THEN IF Unwrap(info).multizone
             THEN Done([b1 EXCEPT !.color = ColorMulti(RefreshableData_empty(
                      FIFTEEN_SECS,
                      [type |-> "GetColorZones", start_index |-> 0,
                       end_index |-> END_INDEX], t))])
             ELSE Done([b1 EXCEPT !.color = ColorSingle(RefreshableData_empty(
                      FIFTEEN_SECS, Msg0("LightGet"), t))])
        ELSE Done(b1)

\* a variant of HandleLightState: the name is updated only inside the
\* `if let Color::Single`
HandleLightStateOnlySingle(msg, bulb, t) ==
    IF bulb.color.tag = "Single"
    THEN Done([bulb EXCEPT
                 !.color = ColorSingle(RefreshableData_update(
                               bulb.color.d, msg.color, t)),
                 !.power_level = RefreshableData_update(
                               bulb.power_level, msg.power, t),
                 !.name = RefreshableData_update(bulb.name, msg.label, t)])
    ELSE Done(bulb)

\* Message::LightState
HandleLightState(msg, bulb, t) ==
    LET b1 == IF bulb.color.tag = "Single"
              THEN [bulb EXCEPT
                      !.color = ColorSingle(RefreshableData_update(
                                    bulb.color.d, msg.color, t)),
                      !.power_level = RefreshableData_update(
                                    bulb.power_level, msg.power, t)]
              ELSE bulb
    IN  Done([b1 EXCEPT !.name = RefreshableData_update(b1.name, msg.label, t)])

\* the assertion of the StateZone closure
StateZoneAssert(index, count) == index <= count

\* v[index as usize] = Some(color): whether the index is in bounds
InBounds(v, index) == index < Len(v)

\* Message::StateZone
HandleStateZone(msg, bulb) ==
    IF bulb.color.tag # "Multi" THEN Done(bulb)
    ELSE
      LET d == bulb.color.d
          fresh == d.data = None
      IN  IF fresh /\ ~StateZoneAssert(msg.index, msg.count)
          THEN Panic(bulb)            \* the closure panics: nothing inserted
          ELSE
            LET v == IF fresh THEN NoneVec(msg.count) ELSE Unwrap(d.data)
            IN  IF InBounds(v, msg.index)
                THEN Done(WithMultiData(bulb,
                         Some([v EXCEPT ![msg.index + 1] = Some(msg.color)])))
                ELSE Panic(WithMultiData(bulb, Some(v)))

\* The ways index + 7 evaluates on u8: the sum when it fits; on overflow
\* <<>> (a build with overflow checks panics) or the wrapped sum.
IndexPlus7(index) ==
    IF index + 7 <= U8_MAX THEN {Some(index + 7)}
    ELSE {None, Some((index + 7) % (U8_MAX + 1))}

\* the assertion of the StateMultiZone closure, on the evaluated sum
StateMultiZoneAssert(sum, count) == sum <= count

\* v[index] .. v[index + n - 1] = the first n colours
WriteZones(v, index, colors, n) ==
    [i \in 1..Len(v) |->
        IF i - 1 >= index /\ i - 1 < index + n
        THEN Some(colors[i - index]) ELSE v[i]]

\* how many of the 8 writes v[index + j] succeed before one is out of bounds
WritesInBounds(v, index) ==
    IF index >= Len(v) THEN 0
    ELSE IF index + 8 <= Len(v) THEN 8 ELSE Len(v) - index

\* Message::StateMultiZone
HandleStateMultiZone(msg, bulb) ==
    IF bulb.color.tag # "Multi" THEN Done(bulb)
    ELSE
      LET d == bulb.color.d
          fresh == d.data = None
          Write(v) ==
            LET n == WritesInBounds(v, msg.index)
                b == WithMultiData(bulb,
                         Some(WriteZones(v, msg.index, msg.colors, n)))
            IN  IF n = 8 THEN Done(b) ELSE Panic(b)
      IN  IF ~fresh THEN Write(Unwrap(d.data))
          ELSE UNION {
                 IF sum = None \/ ~StateMultiZoneAssert(Unwrap(sum), msg.count)
                 THEN Panic(bulb)     \* the closure panics: nothing inserted
                 ELSE Write(NoneVec(msg.count))
                 : sum \in IndexPlus7(msg.index)}

\* a variant of NextSequence: the increment without the wrap
NextSequenceNoWrap(seq) == seq + 1

\* a variant of NextSequence: the remainder without the + 1
NextSequenceNoIncrement(seq) == seq % SEQ_MOD

\* Message::Acknowledgement
NextSequence(seq) == (seq % SEQ_MOD) + 1

HandleAcknowledgement(msg, bulb) ==
    Done([bulb EXCEPT !.options.sequence = NextSequence(msg.seq)])

\* Message::StateExtendedColorZones
HandleStateExtendedColorZones(msg, bulb, t) ==
    Done([bulb EXCEPT !.zones = RefreshableData_update(bulb.zones,
            [zones_count |-> msg.zones_count, zone_index |-> msg.zone_index,
             colors_count |-> msg.colors_count, colors |-> msg.colors], t)])

\* a variant of HandleStateService: the reported port is stored in the
\* record's address
HandleStateServiceStoresPort(msg, bulb) ==
    Done([bulb EXCEPT !.addr.port = msg.port])

\* Message::StateService: a mismatch of port or service is printed, nothing
\* is stored
HandleStateService(msg, bulb) == Done(bulb)

handle_message(msg, bulb, t) ==
    CASE msg.type = "Undecodable" -> {[bulb |-> bulb, outcome |-> "err"]}
      [] msg.type = "StateService" -> HandleStateService(msg, bulb)
      [] msg.type = "StateLabel" ->
           Done([bulb EXCEPT !.name =
                    RefreshableData_update(bulb.name, msg.label, t)])
      [] msg.type = "StateLocation" ->
           Done([bulb EXCEPT !.location =
                    RefreshableData_update(bulb.location, msg.label, t)])
      [] msg.type = "StateVersion" -> HandleStateVersion(msg, bulb, t)
      [] msg.type = "StatePower" ->
           Done([bulb EXCEPT !.power_level =
                    RefreshableData_update(bulb.power_level, msg.level, t)])
      [] msg.type = "StateHostFirmware" ->
           Done([bulb EXCEPT !.host_firmware = RefreshableData_update(
                    bulb.host_firmware,
                    <<msg.version_major, msg.version_minor>>, t)])
      [] msg.type = "StateWifiFirmware" ->
           Done([bulb EXCEPT !.wifi_firmware = RefreshableData_update(
                    bulb.wifi_firmware,
                    <<msg.version_major, msg.version_minor>>, t)])
      [] msg.type = "LightState" -> HandleLightState(msg, bulb, t)
      [] msg.type = "StateZone" -> HandleStateZone(msg, bulb)
      [] msg.type = "StateMultiZone" -> HandleStateMultiZone(msg, bulb)
      [] msg.type = "StateExtendedColorZones" ->
           HandleStateExtendedColorZones(msg, bulb, t)
      [] msg.type = "Acknowledgement" -> HandleAcknowledgement(msg, bulb)
      [] OTHER -> Done(bulb)

(***************************************************************************)
(* Datagrams.  A datagram is its length and what RawMessage::unpack makes  *)
(* of it: None (unpack fails) or the frame's target and the payload;       *)
(* the payload is the Message that Message::from_raw yields, or            *)
(* [type |-> "Undecodable"] when from_raw fails.                           *)
(***************************************************************************)
EmptyDatagram == [nbytes |-> 0, raw |-> None]
Garbage == [nbytes |-> 1, raw |-> None]
Packet(target, msg) ==
    [nbytes |-> 36, raw |-> Some([target |-> target, msg |-> msg])]

Undecodable == [type |-> "Undecodable"]
StateService(port, service) ==
    [type |-> "StateService", port |-> port, service |-> service]
StateLabel(label) == [type |-> "StateLabel", label |-> label]
StateLocation(label) == [type |-> "StateLocation", label |-> label]
StateVersion(vendor, product) ==
    [type |-> "StateVersion", vendor |-> vendor, product |-> product]
StatePower(level) == [type |-> "StatePower", level |-> level]
StateHostFirmware(major, minor) ==
    [type |-> "StateHostFirmware", version_major |-> major,
     version_minor |-> minor]
StateWifiFirmware(major, minor) ==
    [type |-> "StateWifiFirmware", version_major |-> major,
     version_minor |-> minor]
LightState(color, power, label) ==
    [type |-> "LightState", color |-> color, power |-> power, label |-> label]
StateZone(count, index, color) ==
    [type |-> "StateZone", count |-> count, index |-> index, color |-> color]
StateMultiZone(count, index, colors) ==
    [type |-> "StateMultiZone", count |-> count, index |-> index,
     colors |-> colors]
StateExtendedColorZones(zones_count, zone_index, colors_count, colors) ==
    [type |-> "StateExtendedColorZones", zones_count |-> zones_count,
     zone_index |-> zone_index, colors_count |-> colors_count,
     colors |-> colors]
Acknowledgement(seq) == [type |-> "Acknowledgement", seq |-> seq]
EchoResponse == [type |-> "EchoResponse"]

(***************************************************************************)
(* State.                                                                  *)
(***************************************************************************)
VARIABLES
    bulbs,          \* Manager.bulbs: the HashMap, a function on its keys
    lock,           \* who holds the Mutex: "free", "worker" or "fg"
    poisoned,       \* the Mutex's poison flag
    now,            \* the clock behind Instant::now()
    ticks,          \* how often the clock has advanced
    last_discovery, \* Manager.last_discovery
    wpc,            \* worker: "recv", "unpack", "lock", "entry", "handle", "dead"
    wbuf,           \* worker: the datagram in hand, or None
    waddr,          \* worker: the sender of the datagram in hand
    created,        \* how often BulbInfo::new ran for each identity
    fpc,            \* foreground: "idle", "refresh" or "send"
    fop,            \* foreground: the call in progress, or "none"
    ftarget,        \* foreground: the record the call is at
    fstep,          \* refresh: the check of query_for_missing_info it is at
    fvisited,       \* refresh: the records of bulbs.values() already done
    fmsg,           \* foreground: the packet being sent
    fres            \* foreground: how the last call ended

wvars == <<wpc, wbuf, waddr>>
fvars == <<fpc, fop, ftarget, fstep, fvisited, fmsg, fres>>
vars == <<bulbs, lock, poisoned, now, ticks, last_discovery, created,
          wvars, fvars>>

NoAddr == [ip |-> 0, port |-> 0]

Init ==
    /\ bulbs = <<>>
    /\ lock = "free"
    /\ poisoned = FALSE
    /\ now = 0
    /\ ticks = 0
    /\ last_discovery = 0
    /\ wpc = "recv"
    /\ wbuf = None
    /\ waddr = NoAddr
    /\ created = [t \in Targets |-> 0]
    /\ fpc = "idle"
    /\ fop = "none"
    /\ ftarget = 0
    /\ fstep = 0
    /\ fvisited = {}
    /\ fmsg = None
    /\ fres = "none"

\* the steps the clock takes: past the 15 s window, and an hour
TickSteps == {FIFTEEN_SECS + 5, HOUR}

Tick ==
    /\ ticks < MaxTicks
    /\ \E delta \in TickSteps : now' = now + delta
    /\ ticks' = ticks + 1
    /\ UNCHANGED <<bulbs, lock, poisoned, last_discovery, created, wvars, fvars>>

(***************************************************************************)
(* Manager::worker, one iteration of its loop in five steps: recv_from;    *)
(* the length test, unpack and the target test; lock(); the entry lookup;  *)
(* handle_message and the unlock.                                          *)
(***************************************************************************)
\* recv_from returns a datagram of D from a sender of A
WorkerRecv(D, A) ==
    /\ wpc = "recv"
    /\ \E d \in D, a \in A :
         /\ wbuf' = Some(d)
         /\ waddr' = a
    /\ wpc' = "unpack"
    /\ UNCHANGED <<bulbs, lock, poisoned, now, ticks, last_discovery, created,
                   fvars>>

\* recv_from returns Err: panic!, outside the lock
WorkerRecvError ==
    /\ wpc = "recv"
    /\ wpc' = "dead"
    /\ UNCHANGED <<bulbs, lock, poisoned, now, ticks, last_discovery, created,
                   wbuf, waddr, fvars>>

\* a variant of Accepted: no test of the target
AcceptedAnyTarget(d) ==
    /\ d.nbytes # 0
    /\ d.raw # None

\* whether the worker goes on to the registry with the datagram: it has
\* bytes, it unpacks and its target is not 0
Accepted(d) ==
    /\ d.nbytes # 0
    /\ d.raw # None
    /\ Unwrap(d.raw).target # 0

\* Ok((0, addr)), the Err of unpack, or target == 0: back to recv_from
WorkerUnpack ==
    /\ wpc = "unpack"
    /\ IF Accepted(Unwrap(wbuf))
       THEN /\ wpc' = "lock"
            /\ UNCHANGED <<wbuf, waddr>>
       ELSE /\ wpc' = "recv"
            /\ wbuf' = None
            /\ waddr' = NoAddr
    /\ UNCHANGED <<bulbs, lock, poisoned, now, ticks, last_discovery, created,
                   fvars>>

\* receiver_bulbs.lock(): blocks while held; Err when poisoned
WorkerLock ==
    /\ wpc = "lock"
    /\ lock = "free"
    /\ IF poisoned
       THEN /\ wpc' = "recv"
            /\ wbuf' = None
            /\ waddr' = NoAddr
            /\ lock' = lock
       ELSE /\ wpc' = "entry"
            /\ lock' = "worker"
            /\ UNCHANGED <<wbuf, waddr>>
    /\ UNCHANGED <<bulbs, poisoned, now, ticks, last_discovery, created, fvars>>

\* bulbs.entry(target).and_modify(update).or_insert_with(new): the map
\* afterwards, and whether the closure of or_insert_with ran
Entry(map, target, addr, t) ==
    IF target \in DOMAIN map
    THEN [map |-> [map EXCEPT ![target] =
                      BulbInfo_update(map[target], addr, t)],
          inserted |-> FALSE]
    ELSE [map |-> [k \in DOMAIN map \cup {target} |->
                      IF k = target THEN BulbInfo_new(SOURCE, target, addr, t)
                      ELSE map[k]],
          inserted |-> TRUE]

\* the RawMessage the worker holds
Raw == Unwrap(Unwrap(wbuf).raw)

\* a variant of WorkerEntry: the guard is dropped after the lookup, before
\* handle_message
WorkerEntryDroppingGuard ==
    /\ wpc = "entry"
    /\ LET e == Entry(bulbs, Raw.target, waddr, now)
       IN  /\ bulbs' = e.map
           /\ created' = IF e.inserted
                         THEN [created EXCEPT ![Raw.target] = @ + 1]
                         ELSE created
    /\ wpc' = "handle"
    /\ lock' = "free"
    /\ UNCHANGED <<poisoned, now, ticks, last_discovery, wbuf, waddr, fvars>>

\* the lookup or insert of the record, under the guard taken by WorkerLock
WorkerEntry ==
    /\ wpc = "entry"
    /\ LET e == Entry(bulbs, Raw.target, waddr, now)
       IN  /\ bulbs' = e.map
           /\ created' = IF e.inserted
                         THEN [created EXCEPT ![Raw.target] = @ + 1]
                         ELSE created
    /\ wpc' = "handle"
    /\ UNCHANGED <<lock, poisoned, now, ticks, last_discovery, wbuf, waddr,
                   fvars>>

\* a variant of WorkerGuardDropped: the guard outlives the loop iteration
WorkerGuardKept == "worker"

\* the MutexGuard `bulbs` goes out of scope at the end of the if-let
WorkerGuardDropped == "free"

\* Self::handle_message(raw, bulb), the println on Err, and the drop of the
\* guard; a panic unwinds through the guard, which poisons the Mutex
WorkerHandle ==
    /\ wpc = "handle"
    /\ \E r \in handle_message(Raw.msg, bulbs[Raw.target], now) :
         /\ bulbs' = [bulbs EXCEPT ![Raw.target] = r.bulb]
         /\ IF r.outcome = "panic"
            THEN /\ wpc' = "dead"
                 /\ poisoned' = TRUE
            ELSE /\ wpc' = "recv"
                 /\ poisoned' = poisoned
    /\ lock' = WorkerGuardDropped
    /\ wbuf' = None
    /\ waddr' = NoAddr
    /\ UNCHANGED <<now, ticks, last_discovery, created, fvars>>

(***************************************************************************)
(* Foreground calls.  A send_to is a state of its own (fpc = "send", the   *)
(* packet in fmsg) that ends in SendOk or SendFail; fres keeps the result  *)
(* of the last call that ended.  A BulbInfo is reachable only through the  *)
(* guard of bulbs.lock(), so a command or getter on a record runs with the *)
(* lock held by its caller.                                                *)
(***************************************************************************)
\* RawMessage::build(options, msg) sent to addr
Build(options, msg, addr) == [options |-> options, msg |-> msg, addr |-> addr]

\* BuildOptions { source, ..Default::default() }
DiscoverOptions ==
    [target |-> None, ack_required |-> FALSE, res_required |-> FALSE,
     source |-> SOURCE, sequence |-> 0]

\* the broadcast address of the i-th non-loopback interface
Broadcast(i) == [ip |-> U8_MAX + i, port |-> LIFX_PORT]

BeginCall(op) ==
    /\ fpc = "idle"
    /\ fop' = op

\* the call ends with result res; the guard it holds, if any, is dropped
EndCall(res) ==
    /\ fpc' = "idle"
    /\ fop' = "none"
    /\ ftarget' = 0
    /\ fres' = res
    /\ fmsg' = None
    /\ fstep' = 0
    /\ fvisited' = {}
    /\ lock' = IF lock = "fg" THEN "free" ELSE lock

\* Manager::discover up to its first send_to
Discover ==
    /\ fpc = "idle"
    /\ IF MaxIface = 0
       THEN /\ last_discovery' = now
            /\ EndCall("ok")
       ELSE /\ fop' = "discover"
            /\ fpc' = "send"
            /\ fstep' = 1
            /\ fmsg' = Some(Build(DiscoverOptions, Msg0("GetService"),
                                  Broadcast(1)))
            /\ UNCHANGED <<last_discovery, fres, fvisited, lock, ftarget>>
    /\ UNCHANGED <<bulbs, poisoned, now, ticks, created, wvars>>

\* Manager::add_bulb up to its send_to
AddBulb ==
    /\ BeginCall("add_bulb")
    /\ \E addr \in Addrs :
         fmsg' = Some(Build(DiscoverOptions, Msg0("GetService"), addr))
    /\ fpc' = "send"
    /\ UNCHANGED <<bulbs, lock, poisoned, now, ticks, last_discovery, created,
                   wvars, ftarget, fstep, fvisited, fres>>

\* Manager::refresh: self.bulbs.lock(); nothing is done when it is Err
RefreshLock ==
    /\ fpc = "idle"
    /\ lock = "free"
    /\ IF poisoned
       THEN EndCall("ok")
       ELSE /\ fop' = "refresh"
            /\ lock' = "fg"
            /\ fpc' = "refresh"
            /\ UNCHANGED <<fres, fmsg, fstep, fvisited, ftarget>>
    /\ UNCHANGED <<bulbs, poisoned, now, ticks, last_discovery, created, wvars>>

\* the number of checks query_for_missing_info makes
LastStep == 8

\* the field the step-th check of query_for_missing_info looks at, or None
\* when the check is skipped
FieldAt(bulb, step) ==
    CASE step = 1 -> Some(bulb.name)
      [] step = 2 -> Some(bulb.model)
      [] step = 3 -> Some(bulb.location)
      [] step = 4 -> Some(bulb.host_firmware)
      [] step = 5 -> Some(bulb.wifi_firmware)
      [] step = 6 -> Some(bulb.power_level)
      [] step = 7 -> IF bulb.color.tag = "Unknown" THEN None
                     ELSE Some(bulb.color.d)
      [] OTHER ->
           IF IsSome(as_ref(bulb.model))
           THEN LET m == Unwrap(as_ref(bulb.model))
                    info == get_product_info(m[1], m[2])
                IN  IF IsSome(info) /\ Unwrap(info).extended
                    THEN Some(bulb.zones) ELSE None
           ELSE None

\* refresh_if_needed: whether the step-th check sends its query
Sends(bulb, step, t) ==
    /\ IsSome(FieldAt(bulb, step))
    /\ needs_refresh(Unwrap(FieldAt(bulb, step)), t)

\* query_for_missing_info from its from-th check on: the first check that
\* sends, or 0 when none does
NextSend(bulb, from, t) ==
    LET S == {s \in from..LastStep : Sends(bulb, s, t)}
    IN  IF S = {} THEN 0 ELSE CHOOSE s \in S : \A u \in S : s <= u

\* query_for_missing_info on record target from its from-th check on, up to
\* its next send_to or to its end
QueryFrom(target, from) ==
    LET bulb == bulbs[target]
        s == NextSend(bulb, from, now)
    IN  IF s = 0
        THEN /\ fpc' = "refresh"
             /\ fvisited' = fvisited \cup {target}
             /\ fstep' = 0
             /\ fmsg' = None
        ELSE /\ fpc' = "send"
             /\ fstep' = s
             /\ fmsg' = Some(Build(bulb.options,
                                   Unwrap(FieldAt(bulb, s)).refresh_msg,
                                   bulb.addr))
             /\ fvisited' = fvisited

\* for bulb in bulbs.values(): the next record, in any order, and its
\* query_for_missing_info up to the first send_to; the guard is dropped when
\* there is no record left
RefreshNext ==
    /\ fpc = "refresh"
    /\ IF DOMAIN bulbs \subseteq fvisited
       THEN EndCall("ok")
       ELSE /\ \E t \in DOMAIN bulbs \ fvisited :
                 /\ ftarget' = t
                 /\ QueryFrom(t, 1)
            /\ UNCHANGED <<lock, fres, fop>>
    /\ UNCHANGED <<bulbs, poisoned, now, ticks, last_discovery, created, wvars>>

Commands ==
    {"toggle_bulb", "set_power", "set_power_duration", "set_bulb_color",
     "set_strip_array"}

\* the payload a command builds from the record, or None when it sends nothing
Payload(cmd, bulb) ==
    CASE cmd = "toggle_bulb" ->
           Some([type |-> "SetPower",
                 level |-> IF IsSome(as_ref(bulb.power_level))
                              /\ Unwrap(as_ref(bulb.power_level)) > 0
                           THEN "Standby" ELSE "Enabled"])
      [] cmd = "set_power" -> Some([type |-> "SetPower", level |-> "Enabled"])
      [] cmd = "set_power_duration" ->
           Some([type |-> "LightSetPower", level |-> 0, duration |-> 0])
      [] cmd = "set_bulb_color" ->
           Some([type |-> "LightSetColor", reserved |-> 0, color |-> "red",
                 duration |-> 0])
      [] OTHER ->
           IF IsSome(as_ref(bulb.zones))
           THEN Some([type |-> "SetExtendedColorZones", duration |-> 0,
                      apply |-> "Apply", zone_index |-> 0,
                      colors_count |->
                          Unwrap(as_ref(bulb.zones)).colors_count])
           ELSE None

\* a variant of Command: the command advances the sequence counter of the
\* record it sends for
CommandAdvancingSequence(cmds) ==
    /\ lock = "free"
    /\ ~poisoned
    /\ \E cmd \in cmds, t \in DOMAIN bulbs :
         /\ fpc = "idle"
         /\ bulbs' = [bulbs EXCEPT ![t].options.sequence =
                          (bulbs[t].options.sequence % SEQ_MOD) + 1]
         /\ LET pl == Payload(cmd, bulbs[t])
            IN  IF IsSome(pl)
                THEN /\ fop' = cmd
                     /\ ftarget' = t
                     /\ lock' = "fg"
                     /\ fpc' = "send"
                     /\ fmsg' = Some(Build(bulbs[t].options, Unwrap(pl),
                                           bulbs[t].addr))
                     /\ UNCHANGED <<fres, fstep, fvisited>>
                ELSE EndCall("ok")
    /\ UNCHANGED <<poisoned, now, ticks, last_discovery, created, wvars>>

\* a caller locks the registry and calls one of cmds on one of its records
Command(cmds) ==
    /\ lock = "free"
    /\ ~poisoned
    /\ \E cmd \in cmds, t \in DOMAIN bulbs :
         /\ fpc = "idle"
         /\ LET pl == Payload(cmd, bulbs[t])
            IN  IF IsSome(pl)
                THEN /\ fop' = cmd
                     /\ ftarget' = t
                     /\ lock' = "fg"
                     /\ fpc' = "send"
                     /\ fmsg' = Some(Build(bulbs[t].options, Unwrap(pl),
                                           bulbs[t].addr))
                     /\ UNCHANGED <<fres, fstep, fvisited>>
                ELSE EndCall("ok")
    /\ UNCHANGED <<bulbs, poisoned, now, ticks, last_discovery, created, wvars>>

Getters == {"get_colors", "get_length"}

Getter(name, bulb) ==
    IF name = "get_colors" THEN get_colors(bulb) ELSE get_length(bulb)

\* a caller locks the registry and reads one of its records; a panic unwinds
\* through the caller's guard
Get ==
    /\ lock = "free"
    /\ ~poisoned
    /\ \E g \in Getters, t \in DOMAIN bulbs :
         /\ fpc = "idle"
         /\ EndCall(Getter(g, bulbs[t]).outcome)
    /\ poisoned' = (fres' = "panic")
    /\ UNCHANGED <<bulbs, now, ticks, last_discovery, created, wvars>>

\* send_to returns Ok
SendOk ==
    /\ fpc = "send"
    /\ CASE fop = "refresh" ->
              /\ QueryFrom(ftarget, fstep + 1)
              /\ UNCHANGED <<lock, fres, last_discovery, fop, ftarget>>
         [] fop = "discover" ->
              IF fstep < MaxIface
              THEN /\ fstep' = fstep + 1
                   /\ fmsg' = Some(Build(DiscoverOptions, Msg0("GetService"),
                                         Broadcast(fstep + 1)))
                   /\ UNCHANGED <<lock, fres, last_discovery, fpc, fvisited,
                                  fop, ftarget>>
              ELSE /\ last_discovery' = now
                   /\ EndCall("ok")
         [] OTHER ->
              /\ EndCall("ok")
              /\ UNCHANGED last_discovery
    /\ UNCHANGED <<bulbs, poisoned, now, ticks, created, wvars>>

\* send_to returns Err: `?` hands it to the caller, whose guard is dropped;
\* refresh unwraps it and panics, and the unwinding poisons the Mutex
SendFail ==
    /\ fpc = "send"
    /\ IF fop = "refresh"
       THEN /\ EndCall("panic")
            /\ poisoned' = TRUE
       ELSE /\ EndCall("err")
            /\ poisoned' = poisoned
    /\ UNCHANGED <<bulbs, now, ticks, last_discovery, created, wvars>>

(***************************************************************************)
(* Specifications.  Each draws the worker's datagrams from its own set.    *)
(***************************************************************************)
\* Spec: the registry under every foreground call
RegistryDatagrams ==
    {EmptyDatagram, Garbage, Packet(0, StateLabel("lamp")),
     Packet(1, StateLabel("lamp"))}
    \cup {Packet(t, Undecodable) : t \in Targets}

Foreground ==
    \/ Discover
    \/ AddBulb
    \/ RefreshLock
    \/ RefreshNext
    \/ Command(Commands)
    \/ Get
    \/ SendOk
    \/ SendFail

Worker(D, A) ==
    \/ WorkerRecv(D, A)
    \/ WorkerRecvError
    \/ WorkerUnpack
    \/ WorkerLock
    \/ WorkerEntry
    \/ WorkerHandle

Next ==
    \/ Worker(RegistryDatagrams, Addrs)
    \/ Foreground

Spec == Init /\ [][Next]_vars

\* SpecWorker: the worker alone on a running clock
SpecWorkerNext ==
    \/ Worker(RegistryDatagrams, Addrs)
    \/ Tick

SpecWorker == Init /\ [][SpecWorkerNext]_vars

\* SpecAck: the worker alone, on every acknowledgment a device can send
AckDatagrams ==
    {Packet(1, Acknowledgement(seq)) : seq \in 0..U8_MAX}
    \cup {Packet(1, StateLabel("lamp"))}

SpecAckNext == Worker(AckDatagrams, {[ip |-> 1, port |-> LIFX_PORT]})

SpecAck == Init /\ [][SpecAckNext]_vars

\* SpecColor: one device's version, light and zone reports, and the getters
ZoneColors == <<"c0", "c1", "c2", "c3", "c4", "c5", "c6", "c7">>

ColorDatagrams ==
    {Packet(1, m) : m \in
       {StateVersion(1, 1), StateVersion(1, 55),
        LightState("red", 65535, "lamp"),
        StateZone(8, 0, "red"), StateZone(8, 8, "red"),
        StateZone(8, 9, "red"),
        StateMultiZone(8, 0, ZoneColors), StateMultiZone(8, 1, ZoneColors),
        StateMultiZone(8, 2, ZoneColors), StateMultiZone(9, 1, ZoneColors),
        StateMultiZone(8, 250, ZoneColors),
        StateExtendedColorZones(8, 0, 8, ZoneColors)}}

SpecColorNext ==
    \/ Worker(ColorDatagrams, {[ip |-> 1, port |-> LIFX_PORT]})
    \/ Get
    \/ Tick

SpecColor == Init /\ [][SpecColorNext]_vars

\* SpecRefresh: refresh() over two devices whose replies arrive on a running
\* clock
RefreshDatagrams ==
    {Packet(1, m) : m \in {StatePower(65535), StateVersion(1, 38),
                           StateVersion(1, 1), StateLabel("lamp")}}
    \cup {Packet(2, StateLabel("lamp"))}

SpecRefreshNext ==
    \/ Worker(RefreshDatagrams, {[ip |-> 1, port |-> LIFX_PORT]})
    \/ RefreshLock
    \/ RefreshNext
    \/ SendOk
    \/ SendFail
    \/ Tick

SpecRefresh == Init /\ [][SpecRefreshNext]_vars

\* SpecField: the fields of two devices' records under their replies, on a
\* running clock
FieldDatagrams ==
    RefreshDatagrams \cup {Packet(1, LightState("red", 0, "desk"))}

SpecFieldNext ==
    \/ Worker(FieldDatagrams, {[ip |-> 1, port |-> LIFX_PORT]})
    \/ Tick

SpecField == Init /\ [][SpecFieldNext]_vars

\* SpecCommand: every foreground call, on records that receive
\* acknowledgments, power levels and zone snapshots
CommandDatagrams ==
    {Packet(1, m) : m \in {Acknowledgement(7), StatePower(65535),
                           StateExtendedColorZones(8, 0, 8, ZoneColors)}}
    \cup {Packet(2, StateLabel("lamp"))}

SpecCommandNext ==
    \/ Worker(CommandDatagrams, {[ip |-> 1, port |-> LIFX_PORT]})
    \/ Foreground

SpecCommand == Init /\ [][SpecCommandNext]_vars

\* SpecService: service replies, matching their sender or not, to new and to
\* known identities, next to a caller of the getters
ServiceDatagrams ==
    {Packet(t, StateService(LIFX_PORT, "UDP")) : t \in Targets}
    \cup {Packet(1, StateService(1234, "Reserved")),
          Packet(1, StateLabel("lamp"))}

SpecServiceNext ==
    \/ Worker(ServiceDatagrams, Addrs)
    \/ Get
    \/ Tick

SpecService == Init /\ [][SpecServiceNext]_vars

(***************************************************************************)
(* Properties of the registry and of its lock, under Spec.                 *)
(***************************************************************************)
\* the worker leaves the registry part of its loop (lock, entry, handle)
WorkerDoneWithDatagram ==
    /\ wpc \in {"lock", "entry", "handle"}
    /\ wpc' \in {"recv", "dead"}

\* C1: the first datagram the worker receives with a non-zero identity
\* creates exactly one record under it, later ones create no second one, and
\* no record is ever removed: when the worker is done with a datagram of
\* identity t, the registry holds a record for t that BulbInfo::new made
\* exactly once.
C1_OneRecordPerIdentity ==
    [][/\ DOMAIN bulbs \subseteq DOMAIN bulbs'
       /\ \A t \in Targets : created'[t] <= 1
       /\ WorkerDoneWithDatagram =>
            /\ Raw.target \in DOMAIN bulbs'
            /\ created'[Raw.target] = 1]_vars

C4_SendFailureIsReturned ==
    [][fpc = "send" /\ fpc' = "idle" /\ fres' # "ok" =>
         /\ fres' = "err"
         /\ bulbs' = bulbs
         /\ poisoned' = poisoned]_vars

(***************************************************************************)
(* Properties of the worker's handling of one datagram, under SpecWorker   *)
(* and SpecAck.                                                            *)
(***************************************************************************)
\* the datagram the worker has in hand
InHand == Unwrap(wbuf)

\* a datagram with no bytes, or that does not unpack, or of identity zero
NoFrame(d) ==
    \/ d.nbytes = 0
    \/ d.raw = None
    \/ d.raw[1].target = 0

\* a datagram that unpacks, of a non-zero identity, whose payload
\* Message::from_raw rejects
NoMessage(d) ==
    /\ ~NoFrame(d)
    /\ d.raw[1].msg.type = "Undecodable"

\* the worker takes a step
WorkerStep == wpc' # wpc

\* C8, as stated: a datagram that is zero-length, that fails decoding at the
\* frame or at the message level, or that carries identity zero creates no
\* record and changes none, is not fatal, and the loop goes on.
C8_UndecodedDatagramChangesNothing ==
    [][wbuf # None /\ (NoFrame(InHand) \/ NoMessage(InHand)) =>
         /\ bulbs' = bulbs
         /\ wpc' # "dead"
         /\ poisoned' = poisoned]_vars

\* b is a record as BulbInfo::new leaves it: every field absent, ColorState
\* Unknown, address and last_seen those of the datagram
Blank(b, addr, t) ==
    /\ b.addr = addr
    /\ b.last_seen = t
    /\ \A f \in {"name", "model", "location", "host_firmware", "wifi_firmware",
                 "power_level", "zones"} : b[f].data = <<>>
    /\ b.color.tag = "Unknown"

\* new is old but for its address and last_seen, which are the datagram's
Bookkeeping(old, new, addr, t) ==
    /\ new.addr = addr
    /\ new.last_seen = t
    /\ [new EXCEPT !.addr = old.addr, !.last_seen = old.last_seen] = old

\* C8, amended: a datagram that is zero-length, that does not unpack or that
\* carries identity zero creates no record and changes none; one that unpacks
\* with a non-zero identity but whose payload fails to decode creates the
\* record of its identity (blank) or updates that record's address and
\* last_seen, and changes nothing else; neither is fatal and the loop goes on.
C8_UndecodedDatagramOnlyBookkeeping ==
    [][wbuf # None =>
         /\ NoFrame(InHand) =>
              /\ bulbs' = bulbs
              /\ WorkerStep => wpc' = "recv"
         /\ NoMessage(InHand) =>
              LET t == InHand.raw[1].target
              IN  /\ wpc' # "dead"
                  /\ WorkerStep => poisoned' = poisoned
                  /\ \A u \in DOMAIN bulbs' \ {t} :
                        u \in DOMAIN bulbs /\ bulbs'[u] = bulbs[u]
                  /\ wpc = "entry" /\ WorkerStep =>
                        /\ t \in DOMAIN bulbs'
                        /\ IF t \in DOMAIN bulbs
                           THEN Bookkeeping(bulbs[t], bulbs'[t], waddr, now)
                           ELSE Blank(bulbs'[t], waddr, now)
                  /\ wpc # "entry" \/ ~WorkerStep => bulbs' = bulbs
                  /\ wpc = "handle" /\ WorkerStep => wpc' = "recv"]_vars

\* C8: the worker has applied a datagram whose payload does not decode to a
\* record that has its name, from another address and at a later time
C8_Witness ==
    /\ wpc = "handle"
    /\ NoMessage(InHand)
    /\ LET b == bulbs[InHand.raw[1].target]
       IN  /\ b.name.data # <<>>
           /\ b.last_seen > b.name.last_updated
           /\ b.addr = waddr
           /\ waddr.ip = 2

\* C9: an acknowledgment with sequence s sets the record's next sequence to
\* (s mod 255) + 1, that is s + 1 up to 254 and 1 for 255, and changes no
\* other field of the record.
C9_AckSetsNextSequence ==
    [][wpc = "handle" /\ Raw.msg.type = "Acknowledgement" =>
         LET s == Raw.msg.seq
             old == bulbs[Raw.target]
             new == bulbs'[Raw.target]
         IN  /\ new.options.sequence = IF s < 255 THEN s + 1 ELSE 1
             /\ s = 254 => new.options.sequence = 255
             /\ s = 255 => new.options.sequence = 1
             /\ [new EXCEPT !.options.sequence = old.options.sequence] = old
             /\ DOMAIN bulbs' = DOMAIN bulbs]_vars

\* C9: the acknowledgment 254 has been applied to a record that has its name
C9_Witness ==
    /\ 1 \in DOMAIN bulbs
    /\ bulbs[1].options.sequence = 255
    /\ bulbs[1].name.data # <<>>
    /\ wpc = "recv"

\* C10, as stated: the sequence counter of every record is in 1..=255.
C10_SequenceIn1To255 ==
    \A t \in DOMAIN bulbs : bulbs[t].options.sequence \in 1..255

\* the worker applies an acknowledgment to record t in this step
AckApplied(t) ==
    /\ wpc = "handle"
    /\ Raw.target = t
    /\ Raw.msg.type = "Acknowledgement"
    /\ WorkerStep

\* C10, amended: the sequence counter of every record is in 0..=255: it is 0
\* from the creation of the record until the first acknowledgment for it is
\* applied, and in 1..=255 after any acknowledgment.
C10_SequenceZeroUntilAck ==
    [][\A t \in DOMAIN bulbs' :
         LET seq == bulbs'[t].options.sequence
         IN  /\ seq \in 0..255
             /\ t \notin DOMAIN bulbs => seq = 0
             /\ t \in DOMAIN bulbs /\ AckApplied(t) => seq \in 1..255
             /\ t \in DOMAIN bulbs /\ ~AckApplied(t) =>
                  seq = bulbs[t].options.sequence]_vars

\* C10: a record that has received a label and no acknowledgment yet
C10_Witness ==
    /\ 1 \in DOMAIN bulbs
    /\ bulbs[1].options.sequence = 0
    /\ bulbs[1].name.data # <<>>
    /\ wpc = "recv"

(***************************************************************************)
(* Properties of the colour state, the zone reports and the getters, under *)
(* SpecColor.                                                              *)
(***************************************************************************)
\* the worker is about to apply a message of this type to a MultiZone record
Applying(type) ==
    /\ wpc = "handle"
    /\ Raw.msg.type = type
    /\ bulbs[Raw.target].color.tag = "Multi"

\* the worker's last step applied its message and went back to recv_from
Applied == wpc' = "recv" /\ ~poisoned'

\* C2: a record's colour state leaves Unknown at most once: once it is
\* SingleZone or MultiZone no step changes the variant, and no step replaces
\* colour data the record holds with the empty seed.
C2_ColorStateLeavesUnknownOnce ==
    [][\A t \in DOMAIN bulbs :
         bulbs[t].color.tag # "Unknown" =>
           /\ bulbs'[t].color.tag = bulbs[t].color.tag
           /\ bulbs[t].color.d.data # None =>
                bulbs'[t].color.d.data # None]_vars

\* C5: a multi-zone report on a MultiZone record sets the eight entries
\* index .. index + 7 when index + 7 <= count (the collection, when first
\* allocated, has length count) and is rejected, changing nothing, otherwise;
\* either way the worker goes on to the next datagram.
C5_MultiZoneReportAppliedOrRejected ==
    [][Applying("StateMultiZone") /\ WorkerStep =>
         LET m == Raw.msg
             old == bulbs[Raw.target]
             new == bulbs'[Raw.target]
         IN  /\ Applied
             /\ IF m.index + 7 <= m.count
                THEN /\ new.color.tag = "Multi"
                     /\ new.color.d.data # None
                     /\ LET v == Unwrap(new.color.d.data)
                        IN  /\ old.color.d.data = None => Len(v) = m.count
                            /\ \A j \in 0..7 :
                                 /\ m.index + j < Len(v)
                                 /\ v[m.index + j + 1] = Some(m.colors[j + 1])
                ELSE new = old]_vars

\* C6: a single-zone report on a MultiZone record sets the entry at index
\* when index <= count (the collection, when first allocated, has length
\* count) and is rejected, changing nothing, otherwise; either way the worker
\* goes on to the next datagram.
C6_ZoneReportAppliedOrRejected ==
    [][Applying("StateZone") /\ WorkerStep =>
         LET m == Raw.msg
             old == bulbs[Raw.target]
             new == bulbs'[Raw.target]
         IN  /\ Applied
             /\ IF m.index <= m.count
                THEN /\ new.color.tag = "Multi"
                     /\ new.color.d.data # None
                     /\ LET v == Unwrap(new.color.d.data)
                        IN  /\ old.color.d.data = None => Len(v) = m.count
                            /\ m.index < Len(v)
                            /\ v[m.index + 1] = Some(m.color)
                ELSE new = old]_vars

\* C7: the zone getters return the colours and the zone count when the
\* extended zone data is present and an error when it is absent: a getter
\* never panics, and on a record without zone data its result is "err".
C7_GetterReturnsError ==
    [][fpc = "idle" /\ fres' # fres =>
         \E g \in Getters, t \in DOMAIN bulbs :
            fres' = IF bulbs[t].zones.data # None THEN "ok" ELSE "err"]_vars

\* the worker applies a message of this type to record t in this step
Handling(t, type) ==
    /\ wpc = "handle"
    /\ WorkerStep
    /\ Raw.target = t
    /\ Raw.msg.type = type

\* the capability lookup reports the product of this version reply as
\* multizone-capable
MultizoneProduct(msg) ==
    LET info == get_product_info(msg.vendor, msg.product)
    IN  IsSome(info) /\ Unwrap(info).multizone

\* C11: every new record starts with ColorState Unknown; a version reply of a
\* multizone-capable product leaves the record MultiZone; from then on the
\* record stays MultiZone, a light-state reply sets no single colour on it
\* (its colour field is untouched) and a zone report changes only its zone
\* sequence.
C11_MultizoneFromVersionReplyOn ==
    [][\A t \in DOMAIN bulbs' :
         /\ t \notin DOMAIN bulbs => bulbs'[t].color.tag = "Unknown"
         /\ t \in DOMAIN bulbs =>
              LET old == bulbs[t]
                  new == bulbs'[t]
              IN  /\ Handling(t, "StateVersion") /\ MultizoneProduct(Raw.msg)
                       => new.color.tag = "Multi"
                  /\ old.color.tag = "Multi" =>
                       /\ new.color.tag = "Multi"
                       /\ Handling(t, "LightState") => new.color = old.color
                       /\ Handling(t, "StateZone") \/ Handling(t, "StateMultiZone")
                            => [new EXCEPT !.color.d.data = old.color.d.data]
                               = old]_vars

(***************************************************************************)
(* Properties of refresh(), under SpecRefresh.                             *)
(***************************************************************************)
\* the query of the step-th field in the order name, model, location, host
\* firmware, wifi firmware, power, colour, zone snapshot
QueryOf(bulb, step) ==
    CASE step = 1 -> Msg0("GetLabel")
      [] step = 2 -> Msg0("GetVersion")
      [] step = 3 -> Msg0("GetLocation")
      [] step = 4 -> Msg0("GetHostFirmware")
      [] step = 5 -> Msg0("GetWifiFirmware")
      [] step = 6 -> Msg0("GetPower")
      [] step = 7 -> IF bulb.color.tag = "Single" THEN Msg0("LightGet")
                     ELSE [type |-> "GetColorZones", start_index |-> 0,
                           end_index |-> 255]
      [] OTHER -> Msg0("GetExtendedColorZones")

\* none of the fields from..to of the record is due a query
NoneDue(bulb, from, to) == \A s \in from..to : ~Sends(bulb, s, now)

\* refresh() moves on in this step
RefreshStep ==
    /\ fop = "refresh"
    /\ fpc' # fpc \/ fstep' # fstep \/ ftarget' # ftarget
       \/ fvisited' # fvisited

\* C12: one refresh() sends, for every record, exactly the queries of its
\* stale fields in the order name, model, location, host firmware, wifi
\* firmware, power, colour, zone snapshot: every send is the query of the
\* first due field after the last one sent, a record is left only when no
\* further field of it is due, and the call ends only when every record has
\* been walked.
C12_RefreshSendsStaleFieldsInOrder ==
    [][RefreshStep =>
         /\ fpc' = "send" =>
              LET b == bulbs[ftarget']
              IN  /\ Sends(b, fstep', now)
                  /\ Unwrap(fmsg') = Build(b.options, QueryOf(b, fstep'),
                                           b.addr)
                  /\ IF fpc = "send"
                     THEN /\ ftarget' = ftarget
                          /\ fstep' > fstep
                          /\ NoneDue(b, fstep + 1, fstep' - 1)
                     ELSE /\ ftarget' \notin fvisited
                          /\ NoneDue(b, 1, fstep' - 1)
         /\ fpc' = "refresh" =>
              \E t \in DOMAIN bulbs \ fvisited :
                 /\ fvisited' = fvisited \cup {t}
                 /\ IF fpc = "send"
                    THEN t = ftarget /\ NoneDue(bulbs[t], fstep + 1, LastStep)
                    ELSE NoneDue(bulbs[t], 1, LastStep)
         /\ fpc' = "idle" =>
              /\ fpc = "refresh"
              /\ DOMAIN bulbs \subseteq fvisited]_vars

(***************************************************************************)
(* Properties of the fields of a record, under SpecField.                  *)
(***************************************************************************)
\* the RefreshableData fields of a BulbInfo
Fields ==
    {"name", "model", "location", "host_firmware", "wifi_firmware",
     "power_level", "zones"}

\* the value with which handle_message calls update on field f of the record
\* for this message, or None when it does not
Updates(f, msg, bulb) ==
    CASE f = "name" /\ msg.type \in {"StateLabel", "LightState"} ->
           Some(msg.label)
      [] f = "model" /\ msg.type = "StateVersion" ->
           Some(<<msg.vendor, msg.product>>)
      [] f = "power_level" /\ msg.type = "StatePower" -> Some(msg.level)
      [] f = "power_level" /\ msg.type = "LightState"
           /\ bulb.color.tag = "Single" -> Some(msg.power)
      [] f = "location" /\ msg.type = "StateLocation" -> Some(msg.label)
      [] f = "host_firmware" /\ msg.type = "StateHostFirmware" ->
           Some(<<msg.version_major, msg.version_minor>>)
      [] f = "wifi_firmware" /\ msg.type = "StateWifiFirmware" ->
           Some(<<msg.version_major, msg.version_minor>>)
      [] f = "zones" /\ msg.type = "StateExtendedColorZones" ->
           Some([zones_count |-> msg.zones_count,
                 zone_index |-> msg.zone_index,
                 colors_count |-> msg.colors_count, colors |-> msg.colors])
      [] OTHER -> None

\* the worker applies its message to record t in this step
HandlingFor(t) ==
    /\ wpc = "handle"
    /\ WorkerStep
    /\ Raw.target = t

RefreshReturnsAtOnce ==
    /\ fpc = "idle"
    /\ fpc' = "idle"
    /\ fres' # fres

\* the metadata fields: name, model, location, host firmware, wifi firmware,
\* power
MetadataSteps == 1..6

\* C14: staleness-based refresh is the retry mechanism: a field whose query
\* or reply was lost stays stale and every later refresh() sends its query
\* again, so that a refresh() returns without sending anything only when no
\* metadata field of any record is stale.
C14_EveryRefreshResendsStaleQueries ==
    [][RefreshReturnsAtOnce =>
         \A t \in DOMAIN bulbs : \A s \in MetadataSteps :
            ~Sends(bulbs[t], s, now)]_vars

\* the RefreshableData values of a record: its seven fields and, unless the
\* ColorState is Unknown, the colour field
FieldsOf(bulb) ==
    [f \in Fields \cup (IF bulb.color.tag = "Unknown" THEN {} ELSE {"color"})
       |-> IF f = "color" THEN bulb.color.d ELSE bulb[f]]

\* C16: update(v) is the only mutation path of a field: whenever a step
\* changes the value of a field of a record, to a present value, the field's
\* last_updated is the time of that step and the field is not stale after
\* it; so for a zone report applied to the colour field of a MultiZone
\* record.
C16_ValueChangesOnlyThroughUpdate ==
    [][\A t \in DOMAIN bulbs \cap DOMAIN bulbs' :
         LET old == FieldsOf(bulbs[t])
             new == FieldsOf(bulbs'[t])
         IN  \A f \in DOMAIN old \cap DOMAIN new :
                new[f].data # old[f].data /\ new[f].data # None =>
                  /\ new[f].last_updated = now'
                  /\ ~needs_refresh(new[f], now')]_vars

\* C17, as stated: a light-state reply updates the record only if its
\* ColorState is SingleZone, and then its colour field, power_level and
\* display_name; on an Unknown or MultiZone record it changes none of them.
C17_LightStateOnlyOnSingleZone ==
    [][\A t \in DOMAIN bulbs :
         Handling(t, "LightState") =>
           LET old == bulbs[t]
               new == bulbs'[t]
           IN  IF old.color.tag = "Single"
               THEN /\ new.color.d.data = Some(Raw.msg.color)
                    /\ new.power_level.data = Some(Raw.msg.power)
                    /\ new.name.data = Some(Raw.msg.label)
               ELSE /\ new.color = old.color
                    /\ new.power_level = old.power_level
                    /\ new.name = old.name]_vars

\* C17, amended: a light-state reply always updates display_name; it updates
\* the colour field and power_level only if the ColorState is SingleZone; on
\* an Unknown or MultiZone record it changes nothing but display_name; no
\* other field of the record changes.
C17_LightStateAlwaysUpdatesName ==
    [][\A t \in DOMAIN bulbs :
         Handling(t, "LightState") =>
           LET old == bulbs[t]
               new == bulbs'[t]
           IN  /\ new.name.data = Some(Raw.msg.label)
               /\ new.name.last_updated = now
               /\ IF old.color.tag = "Single"
                  THEN /\ new.color.tag = "Single"
                       /\ new.color.d.data = Some(Raw.msg.color)
                       /\ new.color.d.last_updated = now
                       /\ new.power_level.data = Some(Raw.msg.power)
                       /\ new.power_level.last_updated = now
                  ELSE /\ new.color = old.color
                       /\ new.power_level = old.power_level
               /\ [new EXCEPT !.name = old.name, !.color = old.color,
                              !.power_level = old.power_level] = old]_vars

\* C17: a MultiZone record to which a light-state reply was applied: it has
\* the reply's label and no power level
C17_Witness ==
    /\ 1 \in DOMAIN bulbs
    /\ bulbs[1].color.tag = "Multi"
    /\ bulbs[1].name.data = Some("lamp")
    /\ bulbs[1].power_level.data = None
    /\ wpc = "recv"

\* the version reply was already applied to the record: it is a duplicate
DuplicateVersion(msg, bulb) ==
    /\ msg.type = "StateVersion"
    /\ as_ref(bulb.model) = Some(<<msg.vendor, msg.product>>)

\* C18: fields update independently and a replayed datagram is safe: a
\* message applied to a record sets the fields it reports to its values and
\* leaves the value of every other field as it was; a version reply that is
\* applied a second time leaves the colour data already received in place.
C18_ReplayKeepsOtherFields ==
    [][\A t \in DOMAIN bulbs :
         HandlingFor(t) =>
           LET old == bulbs[t]
               new == bulbs'[t]
           IN  /\ \A f \in Fields :
                    LET u == Updates(f, Raw.msg, old)
                    IN  new[f].data = IF IsSome(u) THEN u ELSE old[f].data
               /\ DuplicateVersion(Raw.msg, old)
                  /\ old.color.tag # "Unknown" =>
                    /\ new.color.tag = old.color.tag
                    /\ new.color.d.data = old.color.d.data]_vars

\* the zone sequence of a MultiZone record is allocated
Allocated(bulb) == bulb.color.tag = "Multi" /\ bulb.color.d.data # None

\* the zone sequence of a MultiZone record whose sequence is allocated
ZonesOf(bulb) == Unwrap(bulb.color.d.data)

\* C21: the zone sequence of a MultiZone record, once the first zone report
\* has allocated it, keeps for ever the length that report's count gave it:
\* the allocating report makes it count long, no later step resizes or drops
\* it, and every entry a report writes lies at an index strictly below its
\* length.
C21_ZoneSequenceKeepsItsLength ==
    [][\A t \in DOMAIN bulbs :
         LET old == bulbs[t]
             new == bulbs'[t]
         IN  /\ Allocated(old) =>
                  /\ Allocated(new)
                  /\ Len(ZonesOf(new)) = Len(ZonesOf(old))
             /\ ~Allocated(old) /\ Allocated(new) =>
                  /\ Raw.msg.type \in {"StateZone", "StateMultiZone"}
                  /\ Handling(t, Raw.msg.type)
                  /\ Len(ZonesOf(new)) = Raw.msg.count
             /\ Allocated(old) /\ Allocated(new) =>
                  \A i \in 1..Len(ZonesOf(new)) :
                     i <= Len(ZonesOf(old))
                     /\ ZonesOf(new)[i] # ZonesOf(old)[i] =>
                       /\ Raw.msg.type \in {"StateZone", "StateMultiZone"}
                       /\ Handling(t, Raw.msg.type)
                       /\ i - 1 >= Raw.msg.index
                       /\ i - 1 < Len(ZonesOf(old))]_vars

(***************************************************************************)
(* Properties of the foreground calls, under Spec.                         *)
(***************************************************************************)
\* C15: a failure of recv_from ends the whole process: once the worker has
\* stopped on it, no foreground call starts, sends or returns any more.
C15_NoForegroundAfterReceiveFailure ==
    [][wpc = "dead" => fvars' = fvars /\ lock' = lock]_vars

\* C19: records are mutated only by the receiver loop: no step of discover,
\* add_bulb, refresh or a command, whether its send succeeds or fails,
\* changes, adds or removes a record; a record's sequence counter changes
\* only in the step that applies an acknowledgment for its identity.
C19_OnlyWorkerMutatesRecords ==
    [][/\ bulbs' # bulbs =>
            /\ wpc \in {"entry", "handle"}
            /\ WorkerStep
            /\ fvars' = fvars
       /\ fvars' # fvars => bulbs' = bulbs
       /\ \A t \in DOMAIN bulbs :
            /\ t \in DOMAIN bulbs'
            /\ bulbs'[t].options.sequence # bulbs[t].options.sequence =>
                 Handling(t, "Acknowledgement")]_vars

\* C19: a command is sending for a record whose sequence counter an
\* acknowledgment has advanced
C19_Witness ==
    /\ fpc = "send"
    /\ fop \in Commands
    /\ bulbs[ftarget].options.sequence = 8
    /\ fmsg[1].options.sequence = 8

(***************************************************************************)
(* Properties of the service reply, under SpecService.                     *)
(***************************************************************************)
\* the worker has a service reply of a non-zero identity in hand
ServiceInHand ==
    /\ wbuf # None
    /\ ~NoFrame(InHand)
    /\ InHand.raw[1].msg.type = "StateService"

\* C20: a service reply changes nothing beyond record bookkeeping: for a new
\* identity the worker creates the record with the sender's address and
\* last_seen, every field absent and ColorState Unknown; for a known
\* identity it sets the record's address and last_seen and nothing else;
\* applying the reply itself changes no record, whether or not its port and
\* service match the sender, and the worker goes on.
C20_ServiceReplyOnlyBookkeeping ==
    [][ServiceInHand /\ WorkerStep =>
         LET t == InHand.raw[1].target
         IN  /\ \A u \in DOMAIN bulbs' \ {t} :
                   u \in DOMAIN bulbs /\ bulbs'[u] = bulbs[u]
             /\ wpc = "entry" =>
                   /\ t \in DOMAIN bulbs'
                   /\ IF t \in DOMAIN bulbs
                      THEN Bookkeeping(bulbs[t], bulbs'[t], waddr, now)
                      ELSE Blank(bulbs'[t], waddr, now)
             /\ wpc # "entry" => bulbs' = bulbs
             /\ wpc = "handle" => wpc' = "recv" /\ poisoned' = poisoned]_vars

\* C20: the worker has looked up a known record, which has its name, for a
\* service reply whose port is not the sender's, from another address and at
\* a later time
C20_Witness ==
    /\ wpc = "handle"
    /\ ServiceInHand
    /\ InHand.raw[1].msg.port # waddr.port
    /\ LET b == bulbs[InHand.raw[1].target]
       IN  /\ b.name.data # None
           /\ b.addr = waddr
           /\ b.last_seen > b.name.last_updated

(***************************************************************************)
(* Properties of the worker's critical section, under SpecCommand.         *)
(***************************************************************************)
\* a foreground call that reads records is in progress: refresh or a command
ReaderInProgress ==
    /\ fpc # "idle"
    /\ fop \notin {"discover", "add_bulb"}

\* a step of a foreground call that reads records: of refresh, of a command
\* or of a getter
ReaderStep ==
    /\ fvars' # fvars
    /\ fop \notin {"discover", "add_bulb"}
    /\ fop' \notin {"discover", "add_bulb"}

\* the worker is inside its critical section: the record of the datagram is
\* looked up or inserted next, or it is and the message is not yet applied
InSection == wpc \in {"entry", "handle"}

\* C22: per datagram the lookup or insert of the record, the update of its
\* address and last_seen and the application of the message are one critical
\* section under one lock acquisition: the worker holds the lock from the
\* lookup to the end of the application without a break; no reading
\* foreground call is in progress or takes a step while a record is inserted
\* or updated and its message not yet applied; and while a refresh() sweep is
\* in progress no record changes.
C22_DatagramIsOneCriticalSection ==
    [][/\ InSection => lock = "worker" /\ ~ReaderInProgress /\ ~ReaderStep
       /\ wpc = "entry" => lock' = "worker"
       /\ wpc = "entry" /\ WorkerStep => wpc' = "handle"
       /\ bulbs' # bulbs => InSection /\ WorkerStep
       /\ fop = "refresh" \/ fop' = "refresh" =>
            bulbs' = bulbs /\ ~InSection]_vars

\* C22: the worker has inserted the record of a datagram and not yet applied
\* its acknowledgment, while a discover() is sending
C22_Witness ==
    /\ wpc = "handle"
    /\ lock = "worker"
    /\ Raw.msg.type = "Acknowledgement"
    /\ created[Raw.target] = 1
    /\ bulbs[Raw.target].options.sequence = 0
    /\ bulbs[Raw.target].last_seen = now
    /\ fop = "discover"
    /\ fpc = "send"

====
